---- MODULE Spec2Model ----
(***************************************************************************)
(* Model of the GeoDataProcessor pipeline of SMWDataManager.               *)
(*                                                                         *)
(* The repository holds two variants of the pipeline:                      *)
(*   download_data.py    ("dd_" definitions)                               *)
(*   process_geodata.py  ("pg_" definitions)                               *)
(* Both define GeoDataProcessor with get_dataset_config, get_join_config,  *)
(* log_to_wiki, download_dataset, process_join and process_all.            *)
(*                                                                         *)
(* The working directory (data_dir) is a partial map from file names to    *)
(* file contents.  The network, the parsers and the wiki are environment:  *)
(* their outcomes are drawn nondeterministically for every call.           *)
(***************************************************************************)
EXTENDS Integers, Sequences, FiniteSets, TLC

\* ---------------------------------------------------------------- bounds
MaxDatasets == 2
MaxJoins == 2
MaxPieces == 2
MaxRows == 2       \* rows of an input table of a join
MaxApplications == 2   \* times the normalization is applied to one table
MaxFrameCalls == 2     \* attempts made over the colliding identities

\* -------------------------------------------------------------- universe
Variants == {"download_data", "process_geodata"}

None == "None"

\* dataset identities (dataset_info['fulltext'], join.left_dataset, ...)
Identities == {"A", "B"}

\* key columns a join record may name
JoinColumns == {"id"}

\* ------------------------------------------------------- format tags
\* A declared format tag (HasFormat[0]['fulltext']) is a Python str: here a
\* sequence of one-character strings, so that lower() and the `in` substring
\* test are computed, not assumed.
Upper == <<"A","B","C","D","E","F","G","H","I","J","K","L","M",
           "N","O","P","Q","R","S","T","U","V","W","X","Y","Z">>
LowerOf == <<"a","b","c","d","e","f","g","h","i","j","k","l","m",
             "n","o","p","q","r","s","t","u","v","w","x","y","z">>

LowerMap == [c \in {Upper[i] : i \in 1..Len(Upper)} |->
                LowerOf[CHOOSE i \in 1..Len(Upper) : Upper[i] = c]]

\* str.lower() on one character
lower_char(c) == IF c \in DOMAIN LowerMap THEN LowerMap[c] ELSE c

\* str.lower()
lower(s) == [i \in 1..Len(s) |-> lower_char(s[i])]

\* Python `tok in s` for strings
str_in(tok, s) ==
    \E i \in 1..(Len(s) - Len(tok) + 1) : SubSeq(s, i, i + Len(tok) - 1) = tok

T_geojson == <<"g","e","o","j","s","o","n">>
T_zip     == <<"z","i","p">>
T_csv     == <<"c","s","v">>
T_json    == <<"j","s","o","n">>
T_parquet == <<"p","a","r","q","u","e","t">>

\* the tags the catalog declares in a batch: one for every parser, one that
\* names no parser and the empty string
Tags == { <<"G","e","o","J","S","O","N">>,
          <<"Z","I","P">>,
          <<"c","s","v">>,
          <<"J","S","O","N">>,
          <<"P","a","r","q","u","e","t">>,
          <<"X","L","S","X">>,
          <<>> }

\* the tag space the dispatch is checked on: every concatenation of at most
\* MaxPieces pieces
Pieces == { <<"G","e","o","J","S","O","N">>,
            <<"g","e","o">>,
            <<"j","s","o","n">>,
            <<"Z","I","P">>,
            <<"z","i","p">>,
            <<"C","S","V">>,
            <<"c","s","v">>,
            <<"P","a","r","q","u","e","t">>,
            <<"x","l","s">>,
            <<".">> }

RECURSIVE Concat(_)
Concat(ps) == IF ps = <<>> THEN <<>> ELSE Head(ps) \o Concat(Tail(ps))

PieceTags ==
    { Concat(ps) : ps \in UNION { [1..n -> Pieces] : n \in 0..MaxPieces } }

\* dataset_info['printouts'].get('HasFormat', []): the empty list when the
\* record declares no format, else a list whose first entry is the tag
HasFormats == {<<>>} \cup {<<t>> : t \in Tags}

\* dataset_info['printouts'].get('DirectLink', [])
DirectLinks == {<<>>, <<"url">>}

\* `data_format and tok in data_format.lower()` with
\* data_format = data_formats[0]['fulltext'] if data_formats else None
tag_has(data_formats, tok) ==
    /\ data_formats # <<>>
    /\ data_formats[1] # <<>>
    /\ str_in(tok, lower(data_formats[1]))

\* ------------------------------------------------------------- tables
\* A table (DataFrame / GeoDataFrame) or a raw payload held by a file:
\*   kind  "table" or "payload" (bytes written by open(..., 'wb'))
\*   geo   TRUE for a GeoDataFrame (active geometry column)
\*   crs   the spatial reference, "none" when unset
\*   cols  the column names
\*   rows  the rows, as far as a join looks at them: [key, idx] with the value
\*         of the key column and the index of the row
CRSs == {"none", "EPSG:4326", "EPSG:3857"}

Table(geo, crs, cols) ==
    [kind |-> "table", geo |-> geo, crs |-> crs, cols |-> cols, rows |-> <<>>]

Payload == [kind |-> "payload", geo |-> FALSE, crs |-> "none", cols |-> {}, rows |-> <<>>]

with_rows(t, rows) == [t EXCEPT !.rows = rows]

\* what a well-formed source may hold
SourceTables ==
    { Table(TRUE, "none", {"id", "geometry"}),
      Table(TRUE, "EPSG:3857", {"latitude", "longitude", "geometry"}),
      Table(FALSE, "none", {"id"}),
      Table(FALSE, "none", {"latitude", "longitude"}) }

\* ------------------------------------------------------------ file names
dataset_path(name) == name \o ".parquet"
join_path(left, right) == left \o "_" \o right \o "_joined.parquet"
temp_zip == "temp.zip"
temp_parquet == "temp.parquet"

\* the directory made by tempfile.TemporaryDirectory(), outside data_dir
tmpdir == "/tmp/tmpdir"

exists(fs, path) == path \in DOMAIN fs

\* open(path, 'wb').write(...) / DataFrame.to_parquet(path): create or overwrite
write_file(fs, path, content) ==
    [p \in (DOMAIN fs) \cup {path} |-> IF p = path THEN content ELSE fs[p]]

\* Path.unlink()
unlink(fs, path) == [p \in (DOMAIN fs) \ {path} |-> fs[p]]

\* ------------------------------------------------------------ environment
\* what one call of download_dataset meets outside the program:
\*   net      requests.get / raise_for_status: "ok" or "error"
\*   payload  "good" (parses), "corrupt" (the parser raises),
\*            "zip_no_shp" (an archive without a .shp member)
\*   table    what a good payload holds
\*   wiki     what the wiki does with a log entry
WikiOutcomes == {"written", "not_logged_in", "edit_failed"}
Payloads == {"good", "corrupt", "zip_no_shp"}
DatasetEnvs ==
    [net : {"ok", "error"}, payload : Payloads, table : SourceTables, wiki : WikiOutcomes]

DatasetInfos == [fulltext : Identities, DirectLink : DirectLinks, HasFormat : HasFormats]

\* One representative for the inputs that differ only in a part no code path
\* can reach: a record without a link is paired with no format, a failed
\* request and an unparsable payload with the first table.
NoTable == Table(FALSE, "none", {"id"})
Reachable(info, env) ==
    /\ info.DirectLink = <<>> => info.HasFormat = <<>> /\ env.net = "ok"
    /\ (info.DirectLink = <<>> \/ env.net = "error") => env.payload = "good"
    /\ (info.DirectLink = <<>> \/ env.net = "error" \/ env.payload # "good")
          => env.table = NoTable

DatasetCalls == { c \in DatasetInfos \X DatasetEnvs : Reachable(c[1], c[2]) }

\* the calls the dispatch is checked on: one dataset with a link, every tag
\* of the tag space, the request answered
DispatchCalls ==
    { c \in [fulltext : {"A"}, DirectLink : {<<"url">>},
             HasFormat : {<<>>} \cup {<<t>> : t \in PieceTags}]
            \X [net : {"ok"}, payload : {"good", "corrupt"},
                table : {NoTable}, wiki : {"written"}] : TRUE }

\* the result of one attempt:
\*   files   the working directory afterwards
\*   ret     the returned path, or None
\*   logs    the log_to_wiki calls made, in order
\*   net     the number of requests.get calls made
\*   branch  the parser branch taken ("none" before dispatch)
\*   exit    the exit path
\*   exc     an exception is propagating out of the code modelled
Outcome(fs, ret, logs, net, branch, exit, exc) ==
    [files |-> fs, ret |-> ret, logs |-> logs, net |-> net,
     branch |-> branch, exit |-> exit, exc |-> exc]

\* ------------------------------------------------------------ log_to_wiki
\* One call: the entry handed over and what became of it.  The method
\* catches every Exception itself and returns a bool, so it never raises.
log_to_wiki(dataset_name, success, w) ==
    [refersto |-> dataset_name, result |-> success, outcome |-> w]

\* the bool log_to_wiki returns
log_returned(call) == call.outcome = "written"

\* DataFrame read by pandas (read_csv, read_json, read_parquet): never a
\* GeoDataFrame, whatever the source holds
as_pandas(t) == Table(FALSE, "none", t.cols)

has_latlon(t) == {"latitude", "longitude"} \subseteq t.cols

\* `if not direct_links:` log the failure and return None, before any request
\* (the same lines in both scripts)
no_url_exit_silent(name, env, fs) ==
    Outcome(fs, None, <<>>, 0, "none", "no_url", FALSE)

no_url_exit(name, env, fs) ==
    Outcome(fs, None, <<log_to_wiki(name, FALSE, env.wiki)>>,
            0, "none", "no_url", FALSE)

\* ------------------------------------------- download_data.py: download
\* the chain with the zip test moved before the csv test
dd_branch_zip_first(data_formats) ==
    IF tag_has(data_formats, T_geojson) THEN "geojson"
    ELSE IF tag_has(data_formats, T_zip) THEN "zip"
    ELSE IF tag_has(data_formats, T_csv) THEN "csv"
    ELSE IF tag_has(data_formats, T_json) THEN "json"
    ELSE IF tag_has(data_formats, T_parquet) THEN "parquet"
    ELSE "unsupported"

\* the if/elif chain of download_data.py
dd_branch(data_formats) ==
    IF tag_has(data_formats, T_geojson) THEN "geojson"
    ELSE IF tag_has(data_formats, T_csv) THEN "csv"
    ELSE IF tag_has(data_formats, T_json) THEN "json"
    ELSE IF tag_has(data_formats, T_zip) THEN "zip"
    ELSE IF tag_has(data_formats, T_parquet) THEN "parquet"
    ELSE "unsupported"

\* "Save as GeoParquet": what to_parquet writes for df
dd_stored(df) ==
    IF df.geo THEN df
    ELSE IF has_latlon(df)
         THEN Table(TRUE, "EPSG:4326", df.cols \cup {"geometry"})
         ELSE df

\* a log entry that is not written raises out of the save step
dd_save_log_raises(name, df, fs, env, branch) ==
    Outcome(write_file(fs, dataset_path(name), dd_stored(df)),
            IF env.wiki = "written" THEN dataset_path(name) ELSE None,
            <<log_to_wiki(name, TRUE, env.wiki)>>,
            1, branch,
            IF env.wiki = "written" THEN "success" ELSE "log_error",
            env.wiki # "written")

\* from "Save as GeoParquet" to `return output_path`
dd_save(name, df, fs, env, branch) ==
    Outcome(write_file(fs, dataset_path(name), dd_stored(df)),
            dataset_path(name),
            <<log_to_wiki(name, TRUE, env.wiki)>>,
            1, branch, "success", FALSE)

\* a parser raised: the exception leaves the try body with the files as they are
raise_in_body(fs, net, branch, exit) ==
    Outcome(fs, None, <<>>, net, branch, exit, TRUE)

\* the zip branch: temp.zip is written into data_dir, read, then unlinked
dd_zip(name, env, fs) ==
    LET fs1 == write_file(fs, temp_zip, Payload) IN
    IF env.payload # "good"
    THEN raise_in_body(fs1, 1, "zip", "parse_error")
    ELSE dd_save(name, env.table, unlink(fs1, temp_zip), env, "zip")

\* the parquet branch: temp.parquet is written into data_dir, read, then unlinked
dd_parquet(name, env, fs) ==
    LET fs1 == write_file(fs, temp_parquet, Payload) IN
    IF env.payload # "good"
    THEN raise_in_body(fs1, 1, "parquet", "parse_error")
    ELSE dd_save(name, as_pandas(env.table), unlink(fs1, temp_parquet), env, "parquet")

\* the body of the try statement of download_dataset
dd_try(info, env, fs) ==
    LET name == info.fulltext
        br == dd_branch(info.HasFormat)
    IN  IF info.DirectLink = <<>>
        THEN no_url_exit(name, env, fs)
        ELSE IF env.net = "error"
        THEN raise_in_body(fs, 1, "none", "network_error")
        ELSE CASE br = "geojson" ->
                    IF env.payload # "good"
                    THEN raise_in_body(fs, 1, br, "parse_error")
                    ELSE dd_save(name, env.table, fs, env, br)
               [] br \in {"csv", "json"} ->
                    \* read_csv(StringIO(...)): StringIO is not imported by the
                    \* module; whether `from settings import *` supplies it is
                    \* not known, and its NameError is one more parser fault
                    IF env.payload # "good"
                    THEN raise_in_body(fs, 1, br, "parse_error")
                    ELSE dd_save(name, as_pandas(env.table), fs, env, br)
               [] br = "zip" -> dd_zip(name, env, fs)
               [] br = "parquet" -> dd_parquet(name, env, fs)
               [] OTHER ->
                    \* logger.error("Unsupported format ..."); return None
                    Outcome(fs, None, <<>>, 1, br, "unsupported", FALSE)

\* the handler of download_dataset lets the exception through
except_download_reraise(name, body, env) == body

\* `except Exception as e:` of download_dataset: log the failure, return None
except_download(name, body, env) ==
    IF body.exc
    THEN [body EXCEPT !.logs = Append(@, log_to_wiki(name, FALSE, env.wiki)),
                      !.ret = None,
                      !.exc = FALSE]
    ELSE body

dd_download_dataset(info, env, fs) ==
    except_download(info.fulltext, dd_try(info, env, fs), env)

\* ----------------------------------------- process_geodata.py: download
\* the if/elif chain of process_geodata.py (df stays None otherwise)
pg_branch(data_formats) ==
    IF tag_has(data_formats, T_geojson) THEN "geojson"
    ELSE IF tag_has(data_formats, T_zip) THEN "zip"
    ELSE "unsupported"

\* the CRS is set when it is missing and cleared when it is present
pg_set_crs_flip(df) ==
    IF df.crs = "none" THEN [df EXCEPT !.crs = "EPSG:4326"] ELSE [df EXCEPT !.crs = "none"]

\* "Ensure the CRS is set"
pg_set_crs(df) == IF df.crs = "none" THEN [df EXCEPT !.crs = "EPSG:4326"] ELSE df

\* the save step without the `df is not None` test: an empty frame is stored
pg_save_empty(name, df, loaded, fs, env, branch) ==
    Outcome(write_file(fs, dataset_path(name),
                       IF loaded THEN df ELSE Table(FALSE, "none", {})),
            dataset_path(name),
            <<log_to_wiki(name, TRUE, env.wiki)>>,
            1, branch, "success", FALSE)

\* from `if df is not None and isinstance(df, gpd.GeoDataFrame)` to the return
pg_save(name, df, loaded, fs, env, branch) ==
    IF loaded /\ df.geo
    THEN Outcome(write_file(fs, dataset_path(name), pg_set_crs(df)),
                 dataset_path(name),
                 <<log_to_wiki(name, TRUE, env.wiki)>>,
                 1, branch, "success", FALSE)
    ELSE Outcome(fs, None, <<log_to_wiki(name, FALSE, env.wiki)>>,
                 1, branch, IF loaded THEN "not_geodataframe" ELSE "unsupported", FALSE)

\* `with tempfile.TemporaryDirectory() as tmpdir:` leaves the directory
\* removed, however the block is left
pg_tmpdir_exit(fs) == unlink(fs, tmpdir)

\* the zip branch: temp.zip and the extraction live in a TemporaryDirectory
pg_zip(name, env, fs) ==
    LET fs1 == write_file(fs, tmpdir, Payload) IN
    IF env.payload = "corrupt"
    THEN raise_in_body(pg_tmpdir_exit(fs1), 1, "zip", "parse_error")
    ELSE IF env.payload = "zip_no_shp"
    THEN raise_in_body(pg_tmpdir_exit(fs1), 1, "zip", "no_shapefile")
    ELSE pg_save(name, env.table, TRUE, pg_tmpdir_exit(fs1), env, "zip")

pg_try(info, env, fs) ==
    LET name == info.fulltext
        br == pg_branch(info.HasFormat)
    IN  IF info.DirectLink = <<>>
        THEN no_url_exit(name, env, fs)
        ELSE IF env.net = "error"
        THEN raise_in_body(fs, 1, "none", "network_error")
        ELSE CASE br = "geojson" ->
                    IF env.payload # "good"
                    THEN raise_in_body(fs, 1, br, "parse_error")
                    ELSE pg_save(name, env.table, TRUE, fs, env, br)
               [] br = "zip" -> pg_zip(name, env, fs)
               [] OTHER -> pg_save(name, env.table, FALSE, fs, env, br)

pg_download_dataset(info, env, fs) ==
    except_download(info.fulltext, pg_try(info, env, fs), env)

\* GeoDataProcessor.download_dataset of the variant that runs
download_dataset(v, info, env, fs) ==
    IF v = "download_data"
    THEN dd_download_dataset(info, env, fs)
    ELSE pg_download_dataset(info, env, fs)

\* ------------------------------------------------------------------ joins
JoinRecords ==
    [left_dataset : Identities, right_dataset : Identities,
     left_column : JoinColumns, right_column : JoinColumns]

\* what one call of process_join meets outside the program:
\*   fault  reading or writing a parquet file raises (I/O)
\*   lib    what the installed geopandas does with a merged frame whose
\*          active geometry column was renamed by the merge suffixes
JoinEnvs == [fault : BOOLEAN, lib : {"raises", "keeps_geo"}]

\* a value of a key column: a str, an int or a float with an integral value
StrKey(s) == [t |-> "str", s |-> s, n |-> 0]
IntKey(n) == [t |-> "int", s |-> "", n |-> n]
FloatKey(n) == [t |-> "float", s |-> "", n |-> n]

Digits == <<"0", "1", "2", "3", "4", "5", "6", "7", "8", "9">>

\* str(n) of an int
RECURSIVE int_str(_)
int_str(n) ==
    IF n < 0 THEN "-" \o int_str(0 - n)
    ELSE IF n < 10 THEN Digits[n + 1]
    ELSE int_str(n \div 10) \o Digits[(n % 10) + 1]

\* the key column is left as it was read
astype_str_identity(v) == v

\* one element of Series.astype(str): str(v)
astype_str(v) ==
    IF v.t = "str" THEN v
    ELSE IF v.t = "int" THEN StrKey(int_str(v.n))
    ELSE StrKey(int_str(v.n) \o ".0")

\* df[column] = df[column].astype(str)
astype_col(rows) == [i \in 1..Len(rows) |-> [rows[i] EXCEPT !.key = astype_str(@)]]

\* the rows of the inner merge that one left row gives, right rows in order
RECURSIVE merge_one(_, _, _)
merge_one(lrow, R, j) ==
    IF j > Len(R) THEN <<>>
    ELSE (IF lrow.key = R[j].key
          THEN << [key |-> lrow.key, idx |-> lrow.idx \o R[j].idx] >>
          ELSE <<>>) \o merge_one(lrow, R, j + 1)

\* the rows of left_df.merge(right_df, how='inner'): one row for each pair of a
\* left and a right row with equal key values, in the order of the left rows
RECURSIVE merge_rows(_, _, _)
merge_rows(L, R, i) ==
    IF i > Len(L) THEN <<>>
    ELSE merge_one(L[i], R, 1) \o merge_rows(L, R, i + 1)

\* the columns of left_df.merge(right_df, left_on, right_on, how='inner'):
\* a column name on both sides gets the suffixes _x and _y, except a key
\* column of the same name on both sides
merge_cols(l, r, lc, rc) ==
    LET common == (l.cols \cap r.cols) \ (IF lc = rc THEN {lc} ELSE {})
    IN  (l.cols \ common) \cup (r.cols \ common)
        \cup {c \o "_x" : c \in common} \cup {c \o "_y" : c \in common}

\* `if not (left_path.exists() and right_path.exists()):` log locally and
\* return None (the same lines in both scripts)
missing_files_exit_empty(fs, output_path) ==
    Outcome(write_file(fs, output_path, Table(FALSE, "none", {})),
            output_path, <<>>, 0, "none", "missing_files", FALSE)

missing_files_exit(fs, output_path) ==
    Outcome(fs, None, <<>>, 0, "none", "missing_files", FALSE)

\* the handler of process_join lets the exception through
except_join_reraise(body) == body

\* `except Exception as e:` of process_join: log locally, return None
except_join(body) ==
    IF body.exc THEN [body EXCEPT !.ret = None, !.exc = FALSE] ELSE body

\* the body of the try statement of process_join (download_data.py)
dd_join_try(join, env, fs) ==
    LET left_path == dataset_path(join.left_dataset)
        right_path == dataset_path(join.right_dataset)
        output_path == join_path(join.left_dataset, join.right_dataset)
    IN  IF ~(exists(fs, left_path) /\ exists(fs, right_path))
        THEN missing_files_exit(fs, output_path)
        ELSE IF env.fault \/ fs[left_path].kind = "payload"
                          \/ fs[right_path].kind = "payload"
        THEN raise_in_body(fs, 0, "none", "error")
        ELSE IF join.left_column \notin fs[left_path].cols
                \/ join.right_column \notin fs[right_path].cols
        THEN \* merge raises KeyError
             raise_in_body(fs, 0, "none", "missing_column")
        ELSE \* pd.read_parquet on both sides: the merge is a plain DataFrame
             Outcome(write_file(fs, output_path,
                        with_rows(
                            Table(FALSE, "none",
                                  merge_cols(fs[left_path], fs[right_path],
                                             join.left_column, join.right_column)),
                            merge_rows(fs[left_path].rows, fs[right_path].rows, 1))),
                     output_path, <<>>, 0, "none", "success", FALSE)

dd_process_join(join, env, fs) == except_join(dd_join_try(join, env, fs))

\* building or writing the merged frame raises
Raised == [kind |-> "raise", geo |-> FALSE, crs |-> "none", cols |-> {}, rows |-> <<>>]

\* what process_geodata.py stores for the merge of l and r
pg_merged(l, r, lc, rc, env) ==
    LET cols == merge_cols(l, r, lc, rc)
        renamed == "geometry" \in l.cols /\ "geometry" \in r.cols
    IN  IF renamed
        THEN \* geometry_x / geometry_y: no column named geometry is left
             IF l.geo \/ r.geo
             THEN IF env.lib = "raises" THEN Raised
                  ELSE Table(TRUE, IF l.geo THEN l.crs ELSE r.crs, cols)
             ELSE Table(FALSE, "none", cols)
        ELSE IF l.geo THEN Table(TRUE, l.crs, cols)
        ELSE IF r.geo THEN Table(TRUE, r.crs, cols)
        ELSE IF "geometry" \in cols
             THEN \* GeoDataFrame(merged_df, geometry='geometry') on a column
                  \* that holds no geometries
                  Raised
        ELSE Table(FALSE, "none", cols)

\* the check reports the other side
pg_check_columns_swapped(l, r, lc, rc) ==
    IF lc \notin l.cols THEN "missing_right_column"
    ELSE IF rc \notin r.cols THEN "missing_left_column"
    ELSE "present"

\* `# Ensure join columns exist`: the ValueError raised, left side first
pg_check_columns(l, r, lc, rc) ==
    IF lc \notin l.cols THEN "missing_left_column"
    ELSE IF rc \notin r.cols THEN "missing_right_column"
    ELSE "present"

\* the body of the try statement of process_join (process_geodata.py)
pg_join_try(join, env, fs) ==
    LET left_path == dataset_path(join.left_dataset)
        right_path == dataset_path(join.right_dataset)
        output_path == join_path(join.left_dataset, join.right_dataset)
    IN  IF ~(exists(fs, left_path) /\ exists(fs, right_path))
        THEN missing_files_exit(fs, output_path)
        ELSE IF env.fault \/ fs[left_path].kind = "payload"
                          \/ fs[right_path].kind = "payload"
        THEN raise_in_body(fs, 0, "none", "error")
        ELSE LET checked == pg_check_columns(fs[left_path], fs[right_path],
                                             join.left_column, join.right_column)
                 m == pg_merged(fs[left_path], fs[right_path],
                                join.left_column, join.right_column, env)
                 rows == merge_rows(astype_col(fs[left_path].rows),
                                    astype_col(fs[right_path].rows), 1)
             IN  IF checked # "present"
                 THEN raise_in_body(fs, 0, "none", checked)
                 ELSE IF m.kind = "raise"
                 THEN raise_in_body(fs, 0, "none", "store_error")
                 ELSE Outcome(write_file(fs, output_path, with_rows(m, rows)),
                              output_path, <<>>, 0, "none", "success", FALSE)

pg_process_join(join, env, fs) == except_join(pg_join_try(join, env, fs))

\* GeoDataProcessor.process_join of the variant that runs
process_join(v, join, env, fs) ==
    IF v = "download_data"
    THEN dd_process_join(join, env, fs)
    ELSE pg_process_join(join, env, fs)

\* ------------------------------------------------------------ process_all
\* Where process_all goes next.  `at` is the step just finished, nd and nj
\* the lengths of the two configuration lists, i and j the numbers of
\* datasets and joins attempted so far.
\* download_data.py loops over the datasets, then over the joins;
\* process_geodata.py has the dataset loop commented out.
loop_joins(nj, j) == IF j < nj THEN "joins" ELSE "done"

dd_process_all(at, nd, nj, i, j) ==
    CASE at = "get_dataset_config" -> "get_join_config"
      [] at = "get_join_config" -> IF i < nd THEN "datasets" ELSE loop_joins(nj, j)
      [] at = "datasets" -> IF i < nd THEN "datasets" ELSE loop_joins(nj, j)
      [] OTHER -> loop_joins(nj, j)

pg_process_all(at, nd, nj, i, j) ==
    CASE at = "get_dataset_config" -> "get_join_config"
      [] OTHER -> loop_joins(nj, j)

process_all(v, at, nd, nj, i, j) ==
    IF v = "download_data"
    THEN dd_process_all(at, nd, nj, i, j)
    ELSE pg_process_all(at, nd, nj, i, j)

\* a handler around the configuration queries that goes on with empty lists
config_raises_swallowed(at) ==
    IF at = "get_dataset_config" THEN "get_join_config" ELSE "datasets"

\* get_dataset_config / get_join_config raise when site.ask fails or a
\* printout is missing; process_all has no handler around them
config_raises(at) == "crashed"

\* the outcome of a configuration query
ConfigOutcome(fs, ok) ==
    Outcome(fs, None, <<>>, 0, "none",
            IF ok THEN "success" ELSE "catalog_unavailable", ~ok)

\* ------------------------------------------------------------------ state
VARIABLES
    variant,    \* which script runs
    pc,         \* position of process_all
    nDatasets,  \* len(datasets) once get_dataset_config has returned
    nJoins,     \* len(joins) once get_join_config has returned
    di,         \* datasets attempted by process_all
    ji,         \* joins attempted by process_all
    files,      \* the working directory (and the temporary directory)
    last,       \* the last call: [op, arg, out, before]
    trace,      \* the attempts process_all has made, in order: [kind, idx, ok]
    calls       \* download_dataset calls made outside process_all

vars == <<variant, pc, nDatasets, nJoins, di, ji, files, last, trace, calls>>

\* artifacts a previous run may have left in data_dir
PriorTable(n) ==
    IF n = "A" THEN Table(TRUE, "EPSG:4326", {"id", "geometry"})
    ELSE Table(FALSE, "none", {"id"})
PriorFiles ==
    { [ p \in {dataset_path(n) : n \in S} |->
          PriorTable(CHOOSE n \in S : dataset_path(n) = p) ] : S \in SUBSET Identities }

\* one entry of trace: which item was attempted and whether it gave a path
Attempt(kind, idx, out) == [kind |-> kind, idx |-> idx, ok |-> out.ret # None]

Call(op, arg, out, before) == [op |-> op, arg |-> arg, out |-> out, before |-> before]

Init ==
    /\ variant \in Variants
    /\ pc = "start"
    /\ nDatasets = 0
    /\ nJoins = 0
    /\ di = 0
    /\ ji = 0
    /\ files \in PriorFiles
    /\ last = Call("none", <<>>, ConfigOutcome(files, TRUE), files)
    /\ trace = <<>>
    /\ calls = 0

\* a caller uses the public method download_dataset on its own, before the batch
Download(callset, limit) ==
    /\ pc = "start"
    /\ calls < limit
    /\ \E c \in callset :
          \E out \in {download_dataset(variant, c[1], c[2], files)} :
          /\ files' = out.files
          /\ last' = Call("download_dataset", c[1], out, files)
          /\ pc' = IF out.exc THEN "crashed" ELSE pc
    /\ calls' = calls + 1
    /\ UNCHANGED <<variant, nDatasets, nJoins, di, ji, trace>>

\* process_all: datasets = self.get_dataset_config()
GetDatasetConfig ==
    /\ pc = "start"
    /\ \E ok \in BOOLEAN, n \in 0..(MaxDatasets - calls) :
          /\ nDatasets' = IF ok THEN n ELSE 0
          /\ last' = Call("get_dataset_config", <<>>, ConfigOutcome(files, ok), files)
          /\ pc' = IF ok THEN process_all(variant, "get_dataset_config", n, 0, 0, 0)
                         ELSE config_raises("get_dataset_config")
    /\ UNCHANGED <<variant, nJoins, di, ji, files, trace, calls>>

\* process_all: joins = self.get_join_config()
GetJoinConfig ==
    /\ pc = "get_join_config"
    /\ \E ok \in BOOLEAN, n \in 0..MaxJoins :
          /\ nJoins' = IF ok THEN n ELSE 0
          /\ last' = Call("get_join_config", <<>>, ConfigOutcome(files, ok), files)
          /\ pc' = IF ok THEN process_all(variant, "get_join_config", nDatasets, n, 0, 0)
                         ELSE config_raises("get_join_config")
    /\ UNCHANGED <<variant, nDatasets, di, ji, files, trace, calls>>

\* process_all: one iteration of `for dataset in datasets`
BatchDownload ==
    /\ pc = "datasets"
    /\ \E c \in DatasetCalls :
          \E out \in {download_dataset(variant, c[1], c[2], files)} :
          /\ files' = out.files
          /\ last' = Call("download_dataset", c[1], out, files)
          /\ pc' = IF out.exc THEN "crashed"
                   ELSE process_all(variant, "datasets", nDatasets, nJoins, di + 1, ji)
          /\ trace' = Append(trace, Attempt("dataset", di + 1, out))
    /\ di' = di + 1
    /\ UNCHANGED <<variant, nDatasets, nJoins, ji, calls>>

\* process_all: one iteration of `for join in joins`
BatchJoin ==
    /\ pc = "joins"
    /\ \E join \in JoinRecords, env \in JoinEnvs :
          \E out \in {process_join(variant, join, env, files)} :
          /\ files' = out.files
          /\ last' = Call("process_join", join, out, files)
          /\ pc' = IF out.exc THEN "crashed"
                   ELSE process_all(variant, "joins", nDatasets, nJoins, di, ji + 1)
          /\ trace' = Append(trace, Attempt("join", ji + 1, out))
    /\ ji' = ji + 1
    /\ UNCHANGED <<variant, nDatasets, nJoins, di, calls>>

DirectDownload == Download(DatasetCalls, MaxDatasets)

Next ==
    \/ DirectDownload
    \/ GetDatasetConfig
    \/ GetJoinConfig
    \/ BatchDownload
    \/ BatchJoin

Spec == Init /\ [][Next]_vars

\* the dispatch of download_dataset over the tag space: single calls
DispatchDownload == Download(DispatchCalls, 1)

SpecDispatch == Init /\ [][DispatchDownload]_vars

\* a caller uses the public method process_join on its own
Join(joinset, envset, limit) ==
    /\ pc = "start"
    /\ calls < limit
    /\ \E join \in joinset, env \in envset :
          \E out \in {process_join(variant, join, env, files)} :
          /\ files' = out.files
          /\ last' = Call("process_join", join, out, files)
          /\ pc' = IF out.exc THEN "crashed" ELSE pc
    /\ calls' = calls + 1
    /\ UNCHANGED <<variant, nDatasets, nJoins, di, ji, trace>>

\* the rows of a join: process_join of process_geodata.py on two stored
\* artifacts whose key columns hold str, int and float values
KeyValues == {StrKey("2"), StrKey("12"), IntKey(2), IntKey(12), FloatKey(2)}
KeyColumns == UNION {[1..n -> KeyValues] : n \in 0..MaxRows}

\* a frame as read from its artifact: row i holds key ks[i]
key_rows(ks) == [i \in 1..Len(ks) |-> [key |-> ks[i], idx |-> <<i>>]]

RowFiles ==
    { (dataset_path("A") :> with_rows(PriorTable("A"), key_rows(l)))
      @@ (dataset_path("B") :> with_rows(PriorTable("B"), key_rows(r)))
        : l \in KeyColumns, r \in KeyColumns }

InitRows ==
    /\ variant = "process_geodata"
    /\ pc = "start"
    /\ nDatasets = 0
    /\ nJoins = 0
    /\ di = 0
    /\ ji = 0
    /\ files \in RowFiles
    /\ last = Call("none", <<>>, ConfigOutcome(files, TRUE), files)
    /\ trace = <<>>
    /\ calls = 0

JoinRows == Join(JoinRecords, JoinEnvs, 1)

SpecJoin == InitRows /\ [][JoinRows]_vars

\* the normalization between load and store: what the variant writes for a
\* loaded frame df (process_geodata.py stores GeoDataFrames only)
normalize(v, df) ==
    IF v = "download_data" THEN dd_stored(df) ELSE pg_set_crs(df)

\* the frames a source can hold: a GeoDataFrame has a geometry column and any
\* CRS, a DataFrame has no CRS
ColumnNames == {"id", "latitude", "longitude", "geometry"}
AllTables ==
    { Table(TRUE, c, cols \cup {"geometry"}) : c \in CRSs, cols \in SUBSET ColumnNames }
    \cup { Table(FALSE, "none", cols) : cols \in SUBSET ColumnNames }

\* the frames the variant normalizes
Normalizable(v) ==
    IF v = "download_data" THEN AllTables ELSE {t \in AllTables : t.geo}

InitNormalize ==
    /\ variant \in Variants
    /\ pc = "start"
    /\ nDatasets = 0
    /\ nJoins = 0
    /\ di = 0
    /\ ji = 0
    /\ files \in { (dataset_path("A") :> t) : t \in Normalizable(variant) }
    /\ last = Call("none", <<>>, ConfigOutcome(files, TRUE), files)
    /\ trace = <<>>
    /\ calls = 0

\* one entry of trace: application idx and whether it changed the frame
Applied(idx, changed) == [kind |-> "normalize", idx |-> idx, ok |-> changed]

\* the frame held under A.parquet is normalized and stored again
Normalize ==
    /\ pc = "start"
    /\ calls < MaxApplications
    /\ \E fs \in {write_file(files, dataset_path("A"),
                               normalize(variant, files[dataset_path("A")]))} :
          /\ files' = fs
          /\ last' = Call("normalize", <<>>,
                          Outcome(fs, dataset_path("A"), <<>>, 0, "none", "success", FALSE),
                          files)
          /\ trace' = Append(trace, Applied(calls + 1, fs # files))
    /\ calls' = calls + 1
    /\ UNCHANGED <<variant, pc, nDatasets, nJoins, di, ji>>

SpecNormalize == InitNormalize /\ [][Normalize]_vars

\* the artifacts of attempts whose identities meet in a file name: a dataset
\* named like the scratch file of the parquet branch, a dataset named like a
\* join artifact, and identities that concatenate to one join name
FrameIdentities == {"A", "A_A", "temp", "A_A_joined"}

FrameCalls ==
    { c \in [fulltext : FrameIdentities, DirectLink : {<<"url">>},
             HasFormat : { << <<"G","e","o","J","S","O","N">> >>,
                           << <<"Z","I","P">> >>,
                           << <<"P","a","r","q","u","e","t">> >> }]
            \X [net : {"ok"}, payload : {"good", "corrupt"},
                table : {Table(TRUE, "EPSG:3857", {"latitude", "longitude", "geometry"})},
                wiki : {"written"}] : TRUE }

FrameJoins ==
    [left_dataset : FrameIdentities, right_dataset : FrameIdentities,
     left_column : JoinColumns, right_column : JoinColumns]

FramePriorFiles ==
    { [ p \in {dataset_path(n) : n \in S} |->
          PriorTable(CHOOSE n \in S : dataset_path(n) = p) ]
        : S \in SUBSET FrameIdentities }

InitFrame ==
    /\ variant \in Variants
    /\ pc = "start"
    /\ nDatasets = 0
    /\ nJoins = 0
    /\ di = 0
    /\ ji = 0
    /\ files \in FramePriorFiles
    /\ last = Call("none", <<>>, ConfigOutcome(files, TRUE), files)
    /\ trace = <<>>
    /\ calls = 0

FrameDownload == Download(FrameCalls, MaxFrameCalls)
FrameJoin == Join(FrameJoins, JoinEnvs, MaxFrameCalls)

NextFrame ==
    \/ FrameDownload
    \/ FrameJoin

SpecFrame == InitFrame /\ [][NextFrame]_vars

\* ---------------------------------------------------------------- claims
IsDownload == last.op = "download_dataset"
IsJoin == last.op = "process_join"
IsConfig == last.op \in {"get_dataset_config", "get_join_config"}

Attempted(kind, idx) ==
    \E k \in 1..Len(trace) : trace[k].kind = kind /\ trace[k].idx = idx

\* C1: in a batch run no failure inside a dataset attempt or a join attempt
\* leaves the attempt: the batch never stops on an attempt, and once it is
\* done every dataset after an attempted one and every configured join has
\* been attempted.
C1_FailureStaysInAttempt ==
    /\ (IsDownload \/ IsJoin) => (~last.out.exc /\ pc # "crashed")
    /\ pc = "done" =>
          /\ \A j \in 1..nJoins : Attempted("join", j)
          /\ \A i \in 1..nDatasets :
                Attempted("dataset", i) =>
                    \A k \in i..nDatasets : Attempted("dataset", k)

\* a finished batch in which a dataset failed, a later dataset was attempted,
\* a join failed and a later join was attempted
C1_Witness ==
    /\ pc = "done"
    /\ \E a, b \in 1..Len(trace) :
          a < b /\ trace[a].kind = "dataset" /\ ~trace[a].ok /\ trace[b].kind = "dataset"
    /\ \E a, b \in 1..Len(trace) :
          a < b /\ trace[a].kind = "join" /\ ~trace[a].ok /\ trace[b].kind = "join"

\* C2: every call of download_dataset makes exactly one log_to_wiki call
\* before it returns, on every exit path.
C2_OneLogPerAttempt ==
    IsDownload => Len(last.out.logs) = 1

C4_NoUrlFailsWithoutRequest ==
    (IsDownload /\ last.arg.DirectLink = <<>>) =>
        /\ Len(last.out.logs) = 1
        /\ last.out.logs[1].refersto = last.arg.fulltext
        /\ last.out.logs[1].result = FALSE
        /\ last.out.net = 0
        /\ last.out.ret = None
        /\ files = last.before

\* a record without URL, attempted while an artifact of that dataset exists
C4_Witness ==
    /\ IsDownload
    /\ last.arg.DirectLink = <<>>
    /\ exists(last.before, dataset_path(last.arg.fulltext))
    /\ last.out.logs # <<>>

\* the first token of `order` that the tag contains (case-insensitively)
FirstToken(order, data_formats) ==
    LET hits == {i \in 1..Len(order) : tag_has(data_formats, order[i][2])}
    IN  IF hits = {} THEN "unsupported"
        ELSE order[CHOOSE i \in hits : \A k \in hits : i <= k][1]

SpecOrder == << <<"geojson", T_geojson>>, <<"zip", T_zip>>, <<"csv", T_csv>>,
                <<"json", T_json>>, <<"parquet", T_parquet>> >>
CodeOrder == << <<"geojson", T_geojson>>, <<"csv", T_csv>>, <<"json", T_json>>,
                <<"zip", T_zip>>, <<"parquet", T_parquet>> >>

Dispatched == IsDownload /\ variant = "download_data" /\ last.out.branch # "none"

\* C5 (as claimed): download_dataset of download_data.py takes the parser of
\* the first token, in the order geojson, zip, csv, json, parquet, that the
\* tag contains.
C5_DispatchSpecOrder ==
    Dispatched => last.out.branch = FirstToken(SpecOrder, last.arg.HasFormat)

\* C5 (amended): download_dataset of download_data.py takes the parser of the
\* first token, in the order geojson, csv, json, zip, parquet, that the tag
\* contains; a tag that contains zip and csv is read as csv, a tag that
\* contains zip and json as json.
C5_DispatchCodeOrder ==
    Dispatched => last.out.branch = FirstToken(CodeOrder, last.arg.HasFormat)

\* a tag that contains both zip and csv, read as csv
C5_Witness ==
    /\ Dispatched
    /\ tag_has(last.arg.HasFormat, T_zip)
    /\ tag_has(last.arg.HasFormat, T_csv)
    /\ last.out.branch = "csv"

NoKnownToken(data_formats) ==
    \A i \in 1..Len(CodeOrder) : ~tag_has(data_formats, CodeOrder[i][2])

\* C6: with a retrieval URL and a format tag that is absent or names no known
\* token, download_dataset returns None and leaves the working directory as
\* it was (no artifact created or changed).
C6_UnsupportedFormatFails ==
    (IsDownload /\ last.arg.DirectLink # <<>> /\ NoKnownToken(last.arg.HasFormat)) =>
        /\ last.out.ret = None
        /\ files = last.before

\* an answered request for a dataset without a known format, while an
\* artifact of that dataset exists
C6_Witness ==
    /\ IsDownload
    /\ last.arg.DirectLink # <<>>
    /\ NoKnownToken(last.arg.HasFormat)
    /\ last.out.exit = "unsupported"
    /\ exists(last.before, dataset_path(last.arg.fulltext))

\* C7: after download_dataset has returned, no temporary file or directory
\* (temp.zip, temp.parquet, the extraction directory) exists.
C7_NoTemporaryLeft ==
    IsDownload => (DOMAIN files) \cap {temp_zip, temp_parquet, tmpdir} = {}

\* C8: a failing configuration query ends process_all at once with the fault
\* propagated: no dataset and no join has been attempted, and the working
\* directory is as it was.
C8_CatalogUnavailableIsFatal ==
    /\ IsConfig =>
          /\ trace = <<>>
          /\ files = last.before
          /\ last.out.exc => pc = "crashed"
    /\ pc = "crashed" => (IsConfig /\ last.out.exc /\ trace = <<>>)

\* get_join_config failed after datasets had been configured
C8_Witness ==
    /\ pc = "crashed"
    /\ last.op = "get_join_config"
    /\ nDatasets > 0
    /\ trace = <<>>

\* C9: a finished batch has attempted every configured dataset once, in
\* order, and then every configured join once, in order.
C9_EachOnceDatasetsThenJoins ==
    pc = "done" =>
        /\ Len(trace) = nDatasets + nJoins
        /\ \A k \in 1..Len(trace) :
              IF k <= nDatasets
              THEN trace[k].kind = "dataset" /\ trace[k].idx = k
              ELSE trace[k].kind = "join" /\ trace[k].idx = k - nDatasets

InputMissing ==
    \/ ~exists(last.before, dataset_path(last.arg.left_dataset))
    \/ ~exists(last.before, dataset_path(last.arg.right_dataset))

\* C10: when the artifact of the left or of the right dataset does not exist,
\* process_join returns None and leaves the working directory as it was (the
\* join artifact is neither created nor changed).
C10_MissingInputFailsJoin ==
    (IsJoin /\ InputMissing) =>
        /\ last.out.ret = None
        /\ files = last.before

\* a join of an existing left artifact with a missing right artifact
C10_Witness ==
    /\ IsJoin
    /\ exists(last.before, dataset_path(last.arg.left_dataset))
    /\ ~exists(last.before, dataset_path(last.arg.right_dataset))
    /\ last.out.exit = "missing_files"

\* the tables process_join read: both artifacts exist and hold tables, and no
\* read failed
IsPgJoin == IsJoin /\ variant = "process_geodata"
LeftRead == last.before[dataset_path(last.arg.left_dataset)]
RightRead == last.before[dataset_path(last.arg.right_dataset)]
BothRead ==
    /\ IsJoin
    /\ ~InputMissing
    /\ LeftRead.kind = "table"
    /\ RightRead.kind = "table"
    /\ last.out.exit # "error"

LeftKeyMissing == last.arg.left_column \notin LeftRead.cols
RightKeyMissing == last.arg.right_column \notin RightRead.cols

\* C11: process_join of process_geodata.py, with both input artifacts read and
\* the key column absent from the left or from the right table, fails with an
\* error that names a side whose key column is missing, returns None and
\* leaves the working directory as it was (no join artifact written).
C11_MissingKeyColumnNamed ==
    (IsPgJoin /\ BothRead /\ (LeftKeyMissing \/ RightKeyMissing)) =>
        /\ last.out.exit \in {"missing_left_column", "missing_right_column"}
        /\ last.out.exit = "missing_left_column" => LeftKeyMissing
        /\ last.out.exit = "missing_right_column" => RightKeyMissing
        /\ last.out.ret = None
        /\ files = last.before
        /\ ~exists(files, join_path(last.arg.left_dataset, last.arg.right_dataset))
              \/ exists(last.before, join_path(last.arg.left_dataset, last.arg.right_dataset))

\* a join whose left table has the key column and whose right table has not
C11_Witness ==
    /\ IsPgJoin
    /\ BothRead
    /\ ~LeftKeyMissing
    /\ RightKeyMissing
    /\ last.out.exit = "missing_right_column"

\* the textual representation of a key value
IntText == (2 :> "2") @@ (12 :> "12")
TextOf(v) ==
    IF v.t = "str" THEN v.s
    ELSE IF v.t = "int" THEN IntText[v.n]
    ELSE IntText[v.n] \o ".0"
KeyTexts == {TextOf(v) : v \in KeyValues}

RowsWithText(rows, x) == {i \in 1..Len(rows) : TextOf(rows[i].key) = x}

\* C12: the table produced by process_join of process_geodata.py holds exactly
\* one row for each pair of a left row and a right row whose key values have
\* the same textual representation, and no other row: a key held by m left
\* rows and n right rows gives m*n rows, whatever the types of the two key
\* columns.
C12_JoinRowsPerTextualKey ==
    (IsPgJoin /\ last.out.exit = "success") =>
        LET L == LeftRead.rows
            R == RightRead.rows
            out == files[last.out.ret].rows
        IN  /\ \A i \in 1..Len(L), j \in 1..Len(R) :
                  Cardinality({k \in 1..Len(out) : out[k].idx = L[i].idx \o R[j].idx})
                      = IF TextOf(L[i].key) = TextOf(R[j].key) THEN 1 ELSE 0
            /\ \A k \in 1..Len(out) :
                  \E i \in 1..Len(L), j \in 1..Len(R) : out[k].idx = L[i].idx \o R[j].idx
            /\ \A x \in KeyTexts :
                  Cardinality(RowsWithText(out, x))
                      = Cardinality(RowsWithText(L, x)) * Cardinality(RowsWithText(R, x))

\* two left rows with the str key "2" joined with two right rows with the int
\* key 2: four rows
C12_Witness ==
    /\ IsPgJoin
    /\ last.out.exit = "success"
    /\ last.arg.left_dataset # last.arg.right_dataset
    /\ Len(LeftRead.rows) = 2
    /\ \A i \in 1..2 : LeftRead.rows[i].key = StrKey("2")
    /\ Len(RightRead.rows) = 2
    /\ \A j \in 1..2 : RightRead.rows[j].key = IntKey(2)
    /\ Len(files[last.out.ret].rows) = 4

\* a geometry column of an input frame is a column of the inner merge, under
\* its own name or under a suffixed one
MergedHasGeometry == LeftRead.geo \/ RightRead.geo

\* C13: process_join of process_geodata.py, with both inputs read and both key
\* columns present, succeeds and stores the join artifact as geometry-bearing
\* exactly when the merged table holds a geometry column, as a plain table
\* otherwise, for every combination of geometry-bearing and plain inputs.
C13_GeometryKeptWhenPresent ==
    (IsPgJoin /\ BothRead /\ ~LeftKeyMissing /\ ~RightKeyMissing) =>
        /\ last.out.exit = "success"
        /\ files[join_path(last.arg.left_dataset, last.arg.right_dataset)].kind = "table"
        /\ files[join_path(last.arg.left_dataset, last.arg.right_dataset)].geo
              <=> MergedHasGeometry

\* C14: after any sequence of attempts, every stored dataset artifact that
\* holds a geometry column carries a spatial reference (EPSG:4326 where the
\* source gave none).
C14_StoredGeometryHasCrs ==
    \A n \in Identities :
        (exists(files, dataset_path(n)) /\ files[dataset_path(n)].geo) =>
            files[dataset_path(n)].crs # "none"

\* C15: the normalization between load and store is idempotent: applied to a
\* frame it has already normalized it gives the same frame, for every frame
\* (with or without geometry, CRS, latitude/longitude columns).
C15_NormalizeIdempotent ==
    (last.op = "normalize" /\ calls >= 2) => files = last.before

\* a frame that the first application changed (points built from latitude and
\* longitude, or a CRS assigned), normalized a second time
C15_Witness ==
    /\ last.op = "normalize"
    /\ calls = 2
    /\ trace[1].ok
    /\ files[dataset_path("A")].crs = "EPSG:4326"

\* the success entry of the attempt was handed to log_to_wiki and not written
SuccessLogFailed ==
    /\ IsDownload
    /\ \E k \in 1..Len(last.out.logs) :
          last.out.logs[k].result /\ ~log_returned(last.out.logs[k])

\* C16: when a dataset was loaded and stored and the log_to_wiki write of the
\* success then fails (not logged in, or the page edit raises),
\* download_dataset still returns the path of the artifact, the artifact stays
\* in place, no failure entry is issued for the dataset and the batch goes on.
C16_LogFailureKeepsSuccess ==
    SuccessLogFailed =>
        /\ last.out.ret = dataset_path(last.arg.fulltext)
        /\ exists(files, dataset_path(last.arg.fulltext))
        /\ files[dataset_path(last.arg.fulltext)].kind = "table"
        /\ \A k \in 1..Len(last.out.logs) : last.out.logs[k].result
        /\ ~last.out.exc
        /\ pc \notin {"crashed", "start"} => trace[Len(trace)].ok
        /\ pc # "crashed"

\* a dataset of a batch stored while the page edit raised, the batch going on
\* with the next dataset
C16_Witness ==
    /\ SuccessLogFailed
    /\ last.out.logs[1].outcome = "edit_failed"
    /\ trace # <<>>
    /\ trace[Len(trace)].kind = "dataset"
    /\ pc = "datasets"

\* the file at path p is as it was before the last attempt
Untouched(p) ==
    /\ exists(files, p) <=> exists(last.before, p)
    /\ exists(files, p) => files[p] = last.before[p]

SamePair(j, k) ==
    j.left_dataset = k.left_dataset /\ j.right_dataset = k.right_dataset

\* C17: a dataset attempt or a join attempt creates, overwrites or deletes
\* only the artifact of its own identity: the artifact of every other dataset
\* and of every other join (and, for a dataset attempt, of every join; for a
\* join attempt, of every dataset) is as it was before the attempt.
C17_AttemptTouchesOwnArtifactOnly ==
    /\ IsDownload =>
          /\ \A n \in FrameIdentities \ {last.arg.fulltext} : Untouched(dataset_path(n))
          /\ \A j \in FrameJoins : Untouched(join_path(j.left_dataset, j.right_dataset))
    /\ IsJoin =>
          /\ \A n \in FrameIdentities : Untouched(dataset_path(n))
          /\ \A j \in FrameJoins :
                ~SamePair(j, last.arg) =>
                    Untouched(join_path(j.left_dataset, j.right_dataset))
====
